---- MODULE Spec2Model ----
(***************************************************************************)
(* The three repair scripts of the repository (final-fix.py,               *)
(* fix-encoding-complete.py, fix-final-encoding.py) as one state machine.  *)
(* Each script reads one text file, applies its table of literal           *)
(* substitutions and its special-case patches to the text in memory,       *)
(* writes the text back and prints a summary with the number of fixes.     *)
(*                                                                         *)
(* A text is a sequence of Unicode code points, so that a key, a value     *)
(* and the file content are compared character by character, as Python's  *)
(* str does.  The comment before each literal shows the text it encodes.   *)
(***************************************************************************)
EXTENDS Integers, Sequences, FiniteSets

\* final-fix.py: the dict `fixes`, in insertion order (the order .items() yields).
fixes_final_fix ==
  <<
    \* 1: 娴嬭瘯娴佹按绾跨鐞?/h2> -> 测试流水线管理</h2>
    <<<<23092, 23341, 30255, 23092, 20345, 25353, 32510, 36328, 37918, 63, 47, 104, 50, 62>>,
      <<27979, 35797, 27969, 27700, 32447, 31649, 29702, 60, 47, 104, 50, 62>>>>,
    \* 2: 杩愯涓? -> 运行中
    <<<<26473, 24879, 28051, 63>>,
      <<36816, 34892, 20013>>>>,
    \* 3: 执行娴佹按绾? -> 执行流水线
    <<<<25191, 34892, 23092, 20345, 25353, 32510, 63>>,
      <<25191, 34892, 27969, 27700, 32447>>>>,
    \* 4: 涓换鍔?/span> -> 个任务</span>
    <<<<28051, 25442, 37716, 63, 47, 115, 112, 97, 110, 62>>,
      <<20010, 20219, 21153, 60, 47, 115, 112, 97, 110, 62>>>>
  >>

\* fix-encoding-complete.py: the dict `replacements`, in insertion order.
replacements ==
  <<
    \* 1: 娴嬭瘯娴佹按绾跨鐞?/h2> -> 测试流水线管理</h2>
    <<<<23092, 23341, 30255, 23092, 20345, 25353, 32510, 36328, 37918, 63, 47, 104, 50, 62>>,
      <<27979, 35797, 27969, 27700, 32447, 31649, 29702, 60, 47, 104, 50, 62>>>>,
    \* 2: 杩愯涓? -> 运行中
    <<<<26473, 24879, 28051, 63>>,
      <<36816, 34892, 20013>>>>,
    \* 3: 鎺掗槦涓? -> 排队中
    <<<<37818, 25495, 27110, 28051, 63>>,
      <<25490, 38431, 20013>>>>,
    \* 4: 鍒涘缓娴佹按绾?/span> -> 创建流水线</span>
    <<<<37714, 28056, 32531, 23092, 20345, 25353, 32510, 63, 47, 115, 112, 97, 110, 62>>,
      <<21019, 24314, 27969, 27700, 32447, 60, 47, 115, 112, 97, 110, 62>>>>,
    \* 5: 娴佹按绾垮垪琛?/h3> -> 流水线列表</h3>
    <<<<23092, 20345, 25353, 32510, 22446, 22442, 29723, 63, 47, 104, 51, 62>>,
      <<27969, 27700, 32447, 21015, 34920, 60, 47, 104, 51, 62>>>>,
    \* 6: 执行娴佹按绾? -> 执行流水线
    <<<<25191, 34892, 23092, 20345, 25353, 32510, 63>>,
      <<25191, 34892, 27969, 27700, 32447>>>>,
    \* 7: 鎵ц娴佹按绾? -> 执行流水线
    <<<<37813, 1094, 23092, 20345, 25353, 32510, 63>>,
      <<25191, 34892, 27969, 27700, 32447>>>>,
    \* 8: 删除流水线 -> 删除流水线
    <<<<21024, 38500, 27969, 27700, 32447>>,
      <<21024, 38500, 27969, 27700, 32447>>>>,
    \* 9: 鍒犻櫎娴佹按绾? -> 删除流水线
    <<<<37714, 29371, 27342, 23092, 20345, 25353, 32510, 63>>,
      <<21024, 38500, 27969, 27700, 32447>>>>,
    \* 10: 涓换鍔?/span> -> 个任务</span>
    <<<<28051, 25442, 37716, 63, 47, 115, 112, 97, 110, 62>>,
      <<20010, 20219, 21153, 60, 47, 115, 112, 97, 110, 62>>>>,
    \* 11: 瀹氭椂鎵ц -> 定时执行
    <<<<28729, 27693, 26882, 37813, 1094>>,
      <<23450, 26102, 25191, 34892>>>>,
    \* 12: 閫氱煡 -> 通知
    <<<<38315, 27697, 29025>>,
      <<36890, 30693>>>>,
    \* 13: 鎵ц -> 执行
    <<<<37813, 1094>>,
      <<25191, 34892>>>>,
    \* 14: 閰嶇疆 -> 配置
    <<<<38320, 23943, 30086>>,
      <<37197, 32622>>>>,
    \* 15: 浠诲姟娴佺▼ -> 任务流程
    <<<<28000, 35826, 23007, 23092, 20346, 9660>>,
      <<20219, 21153, 27969, 31243>>>>,
    \* 16: 渚濊禆浜? -> 依赖于
    <<<<28186, 28618, 31110, 27996, 63>>,
      <<20381, 36182, 20110>>>>,
    \* 17: 寮€濮? -> 开始
    <<<<23534, 8364, 28654, 63>>,
      <<24320, 22987>>>>,
    \* 18: 鑰楁椂: -> 耗时:
    <<<<38000, 26945, 26882, 58>>,
      <<32791, 26102, 58>>>>,
    \* 19: 閲嶈瘯: -> 重试:
    <<<<38322, 23944, 30255, 58>>,
      <<37325, 35797, 58>>>>,
    \* 20: 娆?/span> -> 次</span>
    <<<<23046, 63, 47, 115, 112, 97, 110, 62>>,
      <<27425, 60, 47, 115, 112, 97, 110, 62>>>>,
    \* 21: 璐ㄩ噺闂ㄧ -> 质量门控
    <<<<29840, 12585, 22138, 38338, 12583>>,
      <<36136, 37327, 38376, 25511>>>>,
    \* 22: 閫氱煡閰嶇疆 -> 通知配置
    <<<<38315, 27697, 29025, 38320, 23943, 30086>>,
      <<36890, 30693, 37197, 32622>>>>,
    \* 23: 閫夋嫨涓€涓祦姘寸嚎 -> 选择一个流水线
    <<<<38315, 22795, 23272, 28051, 8364, 28051, 31078, 23000, 23544, 22158>>,
      <<36873, 25321, 19968, 20010, 27969, 27700, 32447>>>>,
    \* 24: 浠庡乏渚у垪琛ㄤ腑閫夋嫨涓€涓祦姘寸嚎鏉ユ煡鐪嬭缁嗕俊鎭拰绠＄悊閰嶇疆 -> 从左侧列表中选择一个流水线来查看详细信息和管理配置
    <<<<28000, 24225, 20047, 28186, 1091, 22442, 29723, 12580, 33105, 38315, 22795, 23272, 28051, 8364,
        28051, 31078, 23000, 23544, 22158, 37833, 12518, 29025, 37930, 23341, 32513, 21973, 20426, 37805,
        25328, 32480, 65284, 24714, 38320, 23943, 30086>>,
      <<20174, 24038, 20391, 21015, 34920, 20013, 36873, 25321, 19968, 20010, 27969, 27700, 32447, 26469,
        26597, 30475, 35814, 32454, 20449, 24687, 21644, 31649, 29702, 37197, 32622>>>>,
    \* 25: 鍒涘缓鏂版祦姘寸嚎 -> 创建新流水线
    <<<<37714, 28056, 32531, 37826, 29256, 31078, 23000, 23544, 22158>>,
      <<21019, 24314, 26032, 27969, 27700, 32447>>>>,
    \* 26: 鍙栨秷 -> 取消
    <<<<37721, 26664, 31223>>,
      <<21462, 28040>>>>,
    \* 27: switch鍔熻兘鍑芥暟 -> switch功能函数
    <<<<115, 119, 105, 116, 99, 104, 37716, 29115, 20824, 37713, 33445, 26271>>,
      <<115, 119, 105, 116, 99, 104, 21151, 33021, 20989, 25968>>>>,
    \* 28: 鍙傛暟瀵硅薄 -> 参数对象
    <<<<37721, 20635, 26271, 28725, 30789, 34180>>,
      <<21442, 25968, 23545, 35937>>>>,
    \* 29: 杩斿洖缁撴灉 -> 返回结果
    <<<<26473, 26047, 27926, 32513, 25780, 28745>>,
      <<36820, 22238, 32467, 26524>>>>
  >>

\* fix-final-encoding.py: the list `fixes`.
fixes_fix_final_encoding ==
  <<
    \* 1: 娴嬭瘯娴佹按绾跨鐞?/h2> -> 测试流水线管理</h2>
    <<<<23092, 23341, 30255, 23092, 20345, 25353, 32510, 36328, 37918, 63, 47, 104, 50, 62>>,
      <<27979, 35797, 27969, 27700, 32447, 31649, 29702, 60, 47, 104, 50, 62>>>>,
    \* 2: 杩愯涓? -> 运行中
    <<<<26473, 24879, 28051, 63>>,
      <<36816, 34892, 20013>>>>,
    \* 3: 执行娴佹按绾? -> 执行流水线"
    <<<<25191, 34892, 23092, 20345, 25353, 32510, 63>>,
      <<25191, 34892, 27969, 27700, 32447, 34>>>>,
    \* 4: 涓换鍔?/span> -> 个任务</span>
    <<<<28051, 25442, 37716, 63, 47, 115, 112, 97, 110, 62>>,
      <<20010, 20219, 21153, 60, 47, 115, 112, 97, 110, 62>>>>
  >>

\* The opening token of the quote repair for line 181:
\*   title="执行流水线
old_181 ==
  <<116, 105, 116, 108, 101, 61, 34, 25191, 34892, 27969, 27700, 32447>>

\* Its closed form:
\*   title="执行流水线"
new_181 ==
  <<116, 105, 116, 108, 101, 61, 34, 25191, 34892, 27969, 27700, 32447, 34>>

\* The opening token of the quote repair for line 191:
\*   title="删除流水线
old_191 ==
  <<116, 105, 116, 108, 101, 61, 34, 21024, 38500, 27969, 27700, 32447>>

\* Its closed form:
\*   title="删除流水线"
new_191 ==
  <<116, 105, 116, 108, 101, 61, 34, 21024, 38500, 27969, 27700, 32447, 34>>

\* The malformed four-line template block:
\*                   { id: 'cicd', name: 'CI/CD 娴佹按绾?, description: '鏍囧噯鐨勬寔缁泦鎴愭祴璇曟祦绋? },
\*                   { id: 'monitoring', name: '鐩戞帶娴佹按绾?, description: '鐢熶骇鐜鐩戞帶娴嬭瘯' },
\*                   { id: 'regression', name: '鍥炲綊娴嬭瘯娴佹按绾?, description: '瀹屾暣鐨勫洖褰掓祴璇曞浠? },
\*                   { id: 'security', name: '瀹夊叏娴嬭瘯娴佹按绾?, description: '鍏ㄩ潰鐨勫畨鍏ㄦ祴璇曟祦绋? }
old_template ==
  <<32, 32, 32, 32, 32, 32, 32, 32, 32, 32, 32, 32, 32, 32,
    32, 32, 123, 32, 105, 100, 58, 32, 39, 99, 105, 99, 100, 39,
    44, 32, 110, 97, 109, 101, 58, 32, 39, 67, 73, 47, 67, 68,
    32, 23092, 20345, 25353, 32510, 63, 44, 32, 100, 101, 115, 99, 114, 105,
    112, 116, 105, 111, 110, 58, 32, 39, 37837, 22247, 22127, 37928, 21228, 23508,
    32513, 27878, 37812, 24877, 31092, 29831, 26335, 31078, 32459, 63, 32, 125, 44, 10,
    32, 32, 32, 32, 32, 32, 32, 32, 32, 32, 32, 32, 32, 32,
    32, 32, 123, 32, 105, 100, 58, 32, 39, 109, 111, 110, 105, 116,
    111, 114, 105, 110, 103, 39, 44, 32, 110, 97, 109, 101, 58, 32,
    39, 37929, 25118, 24118, 23092, 20345, 25353, 32510, 63, 44, 32, 100, 101, 115,
    99, 114, 105, 112, 116, 105, 111, 110, 58, 32, 39, 37922, 29110, 39559,
    37916, 37929, 25118, 24118, 23092, 23341, 30255, 39, 32, 125, 44, 10, 32, 32,
    32, 32, 32, 32, 32, 32, 32, 32, 32, 32, 32, 32, 32, 32,
    123, 32, 105, 100, 58, 32, 39, 114, 101, 103, 114, 101, 115, 115,
    105, 111, 110, 39, 44, 32, 110, 97, 109, 101, 58, 32, 39, 37733,
    28850, 32138, 23092, 23341, 30255, 23092, 20345, 25353, 32510, 63, 44, 32, 100, 101,
    115, 99, 114, 105, 112, 116, 105, 111, 110, 58, 32, 39, 28729, 23678,
    26275, 37928, 21227, 27926, 35120, 25491, 31092, 29831, 26334, 28000, 63, 32, 125, 44,
    10, 32, 32, 32, 32, 32, 32, 32, 32, 32, 32, 32, 32, 32,
    32, 32, 32, 123, 32, 105, 100, 58, 32, 39, 115, 101, 99, 117,
    114, 105, 116, 121, 39, 44, 32, 110, 97, 109, 101, 58, 32, 39,
    28729, 22794, 21455, 23092, 23341, 30255, 23092, 20345, 25353, 32510, 63, 44, 32, 100,
    101, 115, 99, 114, 105, 112, 116, 105, 111, 110, 58, 32, 39, 37711,
    12585, 28528, 37928, 21227, 30056, 37711, 12582, 31092, 29831, 26335, 31078, 32459, 63, 32,
    125>>

\* The corrected four-line template block:
\*                   { id: 'cicd', name: 'CI/CD 流水线', description: '标准的持续集成测试流程' },
\*                   { id: 'monitoring', name: '监控流水线', description: '生产环境监控测试' },
\*                   { id: 'regression', name: '回归测试流水线', description: '完整的回归测试套件' },
\*                   { id: 'security', name: '安全测试流水线', description: '全面的安全测试流程' }
new_template ==
  <<32, 32, 32, 32, 32, 32, 32, 32, 32, 32, 32, 32, 32, 32,
    32, 32, 123, 32, 105, 100, 58, 32, 39, 99, 105, 99, 100, 39,
    44, 32, 110, 97, 109, 101, 58, 32, 39, 67, 73, 47, 67, 68,
    32, 27969, 27700, 32447, 39, 44, 32, 100, 101, 115, 99, 114, 105, 112,
    116, 105, 111, 110, 58, 32, 39, 26631, 20934, 30340, 25345, 32493, 38598, 25104,
    27979, 35797, 27969, 31243, 39, 32, 125, 44, 10, 32, 32, 32, 32, 32,
    32, 32, 32, 32, 32, 32, 32, 32, 32, 32, 32, 123, 32, 105,
    100, 58, 32, 39, 109, 111, 110, 105, 116, 111, 114, 105, 110, 103,
    39, 44, 32, 110, 97, 109, 101, 58, 32, 39, 30417, 25511, 27969, 27700,
    32447, 39, 44, 32, 100, 101, 115, 99, 114, 105, 112, 116, 105, 111,
    110, 58, 32, 39, 29983, 20135, 29615, 22659, 30417, 25511, 27979, 35797, 39, 32,
    125, 44, 10, 32, 32, 32, 32, 32, 32, 32, 32, 32, 32, 32,
    32, 32, 32, 32, 32, 123, 32, 105, 100, 58, 32, 39, 114, 101,
    103, 114, 101, 115, 115, 105, 111, 110, 39, 44, 32, 110, 97, 109,
    101, 58, 32, 39, 22238, 24402, 27979, 35797, 27969, 27700, 32447, 39, 44, 32,
    100, 101, 115, 99, 114, 105, 112, 116, 105, 111, 110, 58, 32, 39,
    23436, 25972, 30340, 22238, 24402, 27979, 35797, 22871, 20214, 39, 32, 125, 44, 10,
    32, 32, 32, 32, 32, 32, 32, 32, 32, 32, 32, 32, 32, 32,
    32, 32, 123, 32, 105, 100, 58, 32, 39, 115, 101, 99, 117, 114,
    105, 116, 121, 39, 44, 32, 110, 97, 109, 101, 58, 32, 39, 23433,
    20840, 27979, 35797, 27969, 27700, 32447, 39, 44, 32, 100, 101, 115, 99, 114,
    105, 112, 116, 105, 111, 110, 58, 32, 39, 20840, 38754, 30340, 23433, 20840,
    27979, 35797, 27969, 31243, 39, 32, 125>>

------------------------------------------------------------------------------
(* Python's str operations.                                                *)

\* Whether `old` occurs in s starting at position i.
StartsAt(s, old, i) ==
  /\ i + Len(old) - 1 <= Len(s)
  /\ \A j \in 1..Len(old) : s[i + j - 1] = old[j]

\* `old in s`.
In(old, s) == \E i \in 1..(Len(s) - Len(old) + 1) : StartsAt(s, old, i)

\* s.find(old, i), 1-based; 0 when there is none.
Find(s, old, i) ==
  LET at == {j \in i..(Len(s) - Len(old) + 1) : StartsAt(s, old, j)}
  IN  IF at = {} THEN 0 ELSE CHOOSE j \in at : \A h \in at : j <= h

\* s.count(old) from position i on: occurrences left to right, not overlapping.
RECURSIVE CountFrom(_, _, _)
CountFrom(s, old, i) ==
  LET j == Find(s, old, i)
  IN  IF j = 0 THEN 0 ELSE 1 + CountFrom(s, old, j + Len(old))

\* s.count(old).
Count(s, old) == CountFrom(s, old, 1)

\* s.replace(old, new) from position i on: every occurrence, left to right,
\* not overlapping.
RECURSIVE ReplaceFrom(_, _, _, _)
ReplaceFrom(s, old, new, i) ==
  LET j == Find(s, old, i)
  IN  IF j = 0
      THEN SubSeq(s, i, Len(s))
      ELSE SubSeq(s, i, j - 1) \o new \o ReplaceFrom(s, old, new, j + Len(old))

\* A replace that stops after the first occurrence (s.replace(old, new, 1)).
ReplaceFirst(s, old, new) ==
  LET j == Find(s, old, 1)
  IN  IF j = 0 THEN s
      ELSE SubSeq(s, 1, j - 1) \o new \o SubSeq(s, j + Len(old), Len(s))

\* s.replace(old, new).
Replace(s, old, new) == ReplaceFrom(s, old, new, 1)

------------------------------------------------------------------------------
(* The scripts.                                                            *)

FinalFix == "final-fix.py"
Complete == "fix-encoding-complete.py"
FinalEncoding == "fix-final-encoding.py"

Scripts == {FinalFix, Complete, FinalEncoding}

\* The mis-encoded tail that keys 4, 6, 7 and 9 of replacements end in.
BrokenTail == SubSeq(replacements[7][1], 3, 7)

\* The tables with one generic entry more, evaluated first: the tail alone,
\* repaired wherever it stands.
TableGenericTail(s) ==
  <<  <<BrokenTail, SubSeq(replacements[7][2], 3, 5)>>  >> \o
  (IF s = FinalFix THEN fixes_final_fix
   ELSE IF s = Complete THEN replacements
   ELSE fixes_fix_final_encoding)

\* The short tables with the generic entry 13 of replacements copied to their
\* end.
TableGenericExec(s) ==
  IF s = FinalFix THEN Append(fixes_final_fix, replacements[13])
  ELSE IF s = Complete THEN replacements
  ELSE Append(fixes_fix_final_encoding, replacements[13])

\* The substitution table of a script.
Table(s) ==
  IF s = FinalFix THEN fixes_final_fix
  ELSE IF s = Complete THEN replacements
  ELSE fixes_fix_final_encoding

\* The written order of a script's table.
Written(s) == [i \in 1..Len(Table(s)) |-> i]

\* A text with a closing quote after it.
Closed(token) == token \o <<34>>

\* A guard that looks for the token alone.
UnclosedNoGuard(text, token) == In(token, text)

\* The guard of a quote repair: the token occurs and its closed form does not.
Unclosed(text, token) == In(token, text) /\ ~In(Closed(token), text)

\* The content after one iteration of the table loop.
EntryText(text, old, new) ==
  IF In(old, text) THEN Replace(text, old, new) ELSE text

\* A counter that grows on every iteration.
EntryCountAlways(s, text, old, c) ==
  c + (IF s = FinalEncoding THEN Count(text, old) ELSE 1)

\* The counter after one iteration of the table loop: a matching entry adds 1
\* in final-fix.py and fix-encoding-complete.py, and the number of occurrences
\* in fix-final-encoding.py.
EntryCount(s, text, old, c) ==
  IF In(old, text)
  THEN c + (IF s = FinalEncoding THEN Count(text, old) ELSE 1)
  ELSE c

\* The content after a quote repair.
QuoteText(text, token, closed) ==
  IF Unclosed(text, token) THEN Replace(text, token, closed) ELSE text

\* The content after the template patch.
TemplateText(text) ==
  IF In(old_template, text)
  THEN Replace(text, old_template, new_template)
  ELSE text

\* The statement after the table loop and after the first quote repair.
AfterTable(s) == IF s = FinalEncoding THEN "save" ELSE "quote181"
After181(s) == IF s = Complete THEN "quote191" ELSE "save"

\* The special-case patches of a script, in the order of its statements.
PatchTrace(s) ==
  IF s = FinalEncoding THEN <<>>
  ELSE IF s = FinalFix THEN << <<"quote181", 0>> >>
  ELSE << <<"quote181", 0>>, <<"quote191", 0>>, <<"template", 0>> >>

------------------------------------------------------------------------------
(* The inputs: every concatenation of at most MaxFrags fragments of one    *)
(* of the two lists.                                                       *)

MaxFrags == 2
MaxOrderFrags == 2
MaxRuns == 2

Fragments ==
  << SubSeq(old_181, 1, 9) \o BrokenTail,    \* title="执行娴佹按绾?  (holds key 3 / 6)
     BrokenTail,                             \* 娴佹按绾?
     <<34>>,                           \* "
     old_181,                          \* title="执行流水线
     new_181,                          \* title="执行流水线"
     old_191,                          \* title="删除流水线  (holds key 8)
     replacements[2][1],               \* 杩愯涓?  (key 2 of every table)
     replacements[13][1],              \* 鎵ц  (with the tail: key 7)
     replacements[11][1],              \* 瀹氭椂鎵ц  (key 11, ends in key 13)
     replacements[12][1],              \* 閫氱煡
     replacements[14][1],              \* 閰嶇疆  (after 閫氱煡: key 22)
     replacements[24][1] >>            \* key 24, which holds keys 23 and 14

\* The template block and the neighbours it is tried among.
TemplateFragments ==
  << old_template,
     old_181,                          \* title="执行流水线
     replacements[13][1],              \* 鎵ц
     BrokenTail >>                     \* 娴佹按绾?

OrderFragments ==
  << SubSeq(old_181, 1, 9) \o BrokenTail, BrokenTail, replacements[2][1],
     replacements[13][1], replacements[11][1], replacements[12][1],
     replacements[14][1] >>

RECURSIVE Concats(_, _)
Concats(frags, n) ==
  IF n = 0 THEN {<<>>}
  ELSE LET shorter == Concats(frags, n - 1)
       IN  shorter \cup {p \o frags[i] : p \in shorter, i \in 1..Len(frags)}

Inputs ==
  Concats(Fragments, MaxFrags) \cup Concats(TemplateFragments, MaxFrags)
OrderInputs == Concats(OrderFragments, MaxOrderFrags)

\* The permutations of 1..n.
Perms(n) ==
  {f \in [1..n -> 1..n] : \A i, j \in 1..n : f[i] = f[j] => i = j}

\* The order `ord` with its j-th entry moved to the front.
MoveToFront(ord, j) ==
  <<ord[j]>> \o SubSeq(ord, 1, j - 1) \o SubSeq(ord, j + 1, Len(ord))

\* The orders the table loop is tried in: every permutation of a short table,
\* and for the long one the written order with one entry moved to the front.
Orders(s) ==
  IF Len(Table(s)) <= 5 THEN Perms(Len(Table(s)))
  ELSE {MoveToFront(Written(s), j) : j \in 1..Len(Table(s))}

------------------------------------------------------------------------------
(* The state.                                                              *)

VARIABLES
  script,    \* the script that runs
  readable,  \* whether file_path can be opened and decoded as UTF-8
  disk,      \* the text of the file at file_path
  pc,        \* the statement the process is at
  order,     \* the order in which the table's entries are evaluated
  idx,       \* the position in `order` of the entry the loop is at
  content,   \* the variable `content`
  count,     \* the variable count / replaced_count / fixed_count
  summary,   \* whether the summary line has been printed
  exitcode,  \* the exit status of the process; -1 while it runs
  run,       \* the number of the run (the script is run again on its output)
  input,     \* the text of the file before the first run
  orig,      \* the text of the file when this run started
  tabled,    \* the content as it stood after the table loop of this run
  ref,       \* the content the same statements give in the written order
  trace,     \* the statements this run has executed, in order
  occ,       \* the occurrences of keys the table loop has replaced in this run
  fired      \* the special-case patches applied in this run

vars == <<script, readable, disk, pc, order, idx, content, count, summary,
          exitcode, run, input, orig, tabled, ref, trace, occ, fired>>

InitProcess ==
  /\ pc = "load"
  /\ idx = 1
  /\ content = <<>>
  /\ count = 0
  /\ summary = FALSE
  /\ exitcode = -1
  /\ run = 1
  /\ input = disk
  /\ orig = disk
  /\ tabled = <<>>
  /\ ref = <<>>
  /\ trace = <<>>
  /\ occ = 0
  /\ fired = {}

Init ==
  /\ script \in Scripts
  /\ readable \in BOOLEAN
  /\ disk \in Inputs
  /\ order = Written(script)
  /\ InitProcess

\* The file is read whole.
Load ==
  /\ pc = "load"
  /\ readable
  /\ content' = disk
  /\ ref' = disk
  /\ trace' = Append(trace, <<"read", 0>>)
  /\ pc' = "table"
  /\ UNCHANGED <<script, readable, disk, order, idx, count, summary, exitcode,
                 run, input, orig, tabled, occ, fired>>

\* A failed load that is swallowed: the run goes on with an empty content.
LoadFailSwallowed ==
  /\ pc = "load"
  /\ ~readable
  /\ pc' = "table"
  /\ UNCHANGED <<script, readable, disk, order, idx, content, count, summary,
                 exitcode, run, input, orig, tabled, ref, trace, occ, fired>>

\* codecs.open or f.read raises: nothing catches it, the process ends.
LoadFail ==
  /\ pc = "load"
  /\ ~readable
  /\ pc' = "failed"
  /\ exitcode' = 1
  /\ UNCHANGED <<script, readable, disk, order, idx, content, count, summary,
                 run, input, orig, tabled, ref, trace, occ, fired>>

\* One iteration of the table loop.
ApplyEntry ==
  /\ pc = "table"
  /\ LET entry == Table(script)[order[idx]]
         old == entry[1]
         new == entry[2]
         last == idx = Len(order)
         after == EntryText(content, old, new)
     IN  /\ content' = after
         /\ count' = EntryCount(script, content, old, count)
         /\ ref' = EntryText(ref, Table(script)[idx][1], Table(script)[idx][2])
         /\ occ' = occ + Count(content, old)
         /\ trace' = Append(trace, <<"entry", order[idx]>>)
         /\ idx' = IF last THEN idx ELSE idx + 1
         /\ pc' = IF last THEN AfterTable(script) ELSE "table"
         /\ tabled' = IF last THEN after ELSE tabled
  /\ UNCHANGED <<script, readable, disk, order, summary, exitcode, run, input,
                 orig, fired>>

\* The quote repair of line 181.
Quote181 ==
  /\ pc = "quote181"
  /\ content' = QuoteText(content, old_181, new_181)
  /\ ref' = QuoteText(ref, old_181, new_181)
  /\ count' = IF Unclosed(content, old_181) THEN count + 1 ELSE count
  /\ fired' = IF Unclosed(content, old_181)
              THEN fired \cup {"quote181"} ELSE fired
  /\ trace' = Append(trace, <<"quote181", 0>>)
  /\ pc' = After181(script)
  /\ UNCHANGED <<script, readable, disk, order, idx, summary, exitcode, run,
                 input, orig, tabled, occ>>

\* The quote repair of line 191.
Quote191 ==
  /\ pc = "quote191"
  /\ content' = QuoteText(content, old_191, new_191)
  /\ ref' = QuoteText(ref, old_191, new_191)
  /\ count' = IF Unclosed(content, old_191) THEN count + 1 ELSE count
  /\ fired' = IF Unclosed(content, old_191)
              THEN fired \cup {"quote191"} ELSE fired
  /\ trace' = Append(trace, <<"quote191", 0>>)
  /\ pc' = "template"
  /\ UNCHANGED <<script, readable, disk, order, idx, summary, exitcode, run,
                 input, orig, tabled, occ>>

\* The template patch.
Template ==
  /\ pc = "template"
  /\ content' = TemplateText(content)
  /\ ref' = TemplateText(ref)
  /\ count' = IF In(old_template, content) THEN count + 4 ELSE count
  /\ fired' = IF In(old_template, content)
              THEN fired \cup {"template"} ELSE fired
  /\ trace' = Append(trace, <<"template", 0>>)
  /\ pc' = "save"
  /\ UNCHANGED <<script, readable, disk, order, idx, summary, exitcode, run,
                 input, orig, tabled, occ>>

\* A save that leaves the file alone when nothing was fixed.
SaveIfFixed ==
  /\ pc = "save"
  /\ IF count > 0
     THEN disk' = content /\ trace' = Append(trace, <<"write", 0>>)
     ELSE UNCHANGED <<disk, trace>>
  /\ pc' = "report"
  /\ UNCHANGED <<script, readable, order, idx, content, count, summary,
                 exitcode, run, input, orig, tabled, ref, occ, fired>>

\* The file is written whole.
Save ==
  /\ pc = "save"
  /\ disk' = content
  /\ trace' = Append(trace, <<"write", 0>>)
  /\ pc' = "report"
  /\ UNCHANGED <<script, readable, order, idx, content, count, summary,
                 exitcode, run, input, orig, tabled, ref, occ, fired>>

\* The summary line is printed and the process ends.
Report ==
  /\ pc = "report"
  /\ summary' = TRUE
  /\ exitcode' = 0
  /\ trace' = Append(trace, <<"print", 0>>)
  /\ pc' = "done"
  /\ UNCHANGED <<script, readable, disk, order, idx, content, count, run,
                 input, orig, tabled, ref, occ, fired>>

\* The same script is started again on the file it left.
Rerun ==
  /\ pc = "done"
  /\ run < MaxRuns
  /\ run' = run + 1
  /\ orig' = disk
  /\ pc' = "load"
  /\ idx' = 1
  /\ content' = <<>>
  /\ count' = 0
  /\ summary' = FALSE
  /\ exitcode' = -1
  /\ tabled' = <<>>
  /\ ref' = <<>>
  /\ trace' = <<>>
  /\ occ' = 0
  /\ fired' = {}
  /\ UNCHANGED <<script, readable, disk, order, input>>

Next ==
  \/ Load
  \/ LoadFail
  \/ ApplyEntry
  \/ Quote181
  \/ Quote191
  \/ Template
  \/ Save
  \/ Report
  \/ Rerun

Spec == Init /\ [][Next]_vars

\* One run of a script whose table loop takes its entries in any of Orders.
InitOrder ==
  /\ script \in Scripts
  /\ readable = TRUE
  /\ disk \in OrderInputs
  /\ order \in Orders(script)
  /\ InitProcess

NextOrder ==
  \/ Load
  \/ ApplyEntry
  \/ Quote181
  \/ Quote191
  \/ Template
  \/ Save
  \/ Report

SpecOrder == InitOrder /\ [][NextOrder]_vars

------------------------------------------------------------------------------
(* The properties.                                                         *)

Keys(s) == {Table(s)[i][1] : i \in 1..Len(Table(s))}

\* The statements of a run that loads its file, in the order of the script.
FullTrace(s) ==
  << <<"read", 0>> >> \o [i \in 1..Len(Table(s)) |-> <<"entry", i>>] \o
  PatchTrace(s) \o << <<"write", 0>>, <<"print", 0>> >>

IsPrefix(p, q) == Len(p) <= Len(q) /\ SubSeq(q, 1, Len(p)) = p

\* C1: a second run of a script on the file its first run wrote leaves the
\* file as it is: pass(pass(x)) = pass(x).  The file a run leaves holds no
\* key that a further run would replace by another text (the one key it can
\* hold is a key equal to its value), and no special-case guard holds on it.
Idempotent ==
  pc = "done" =>
    /\ run >= 2 => disk = orig
    /\ \A i \in 1..Len(Table(script)) :
         In(Table(script)[i][1], disk) => Table(script)[i][1] = Table(script)[i][2]
    /\ script # FinalEncoding => ~Unclosed(disk, old_181)
    /\ script = Complete => ~Unclosed(disk, old_191) /\ ~In(old_template, disk)

\* A second run has ended on a file the first run had changed.
IdempotentWitness ==
  run = 2 /\ pc = "done" /\ orig # input /\ disk = orig

\* C2: for every entry (k, v) of the table whose key occurs in the input, the
\* output holds no k and holds as many more v as the input held k.
Completeness ==
  pc = "done" =>
    \A i \in 1..Len(Table(script)) :
      LET k == Table(script)[i][1]
          v == Table(script)[i][2]
      IN  In(k, orig) =>
            /\ ~In(k, disk)
            /\ Count(disk, v) = Count(orig, v) + Count(orig, k)

\* C3: the count reported is the number of key occurrences the table loop
\* replaced plus the number of special-case patches applied.
CounterAccuracy ==
  pc = "done" => count = occ + Cardinality(fired)

\* C4: whatever the order in which the table's entries are evaluated, the
\* file written is the one the written order gives.
OrderIndependent == pc = "done" => disk = ref

\* C4, amended: the same for the four-entry tables of final-fix.py and
\* fix-final-encoding.py.
OrderIndependentShort ==
  (pc = "done" /\ script # Complete) => disk = ref

\* Two entries of a short table matched, evaluated against their written order.
OrderIndependentWitness ==
  /\ pc = "done"
  /\ script = FinalFix
  /\ order = <<4, 3, 2, 1>>
  /\ In(Table(script)[2][1], orig)
  /\ In(Table(script)[3][1], orig)
  /\ disk # orig

\* A content with no key of the table in it and on which no special-case
\* condition of the script holds.
CleanInput(s, text) ==
  /\ \A k \in Keys(s) : ~In(k, text)
  /\ s # FinalEncoding => ~Unclosed(text, old_181)
  /\ s = Complete => ~Unclosed(text, old_191) /\ ~In(old_template, text)

\* C5: on a clean input the file written equals the input and the count
\* reported is 0.
NonDestructive ==
  (pc = "done" /\ CleanInput(script, orig)) => (disk = orig /\ count = 0)

\* fix-encoding-complete.py has ended on a clean input that is not empty.
NonDestructiveWitness ==
  /\ pc = "done"
  /\ script = Complete
  /\ CleanInput(script, orig)
  /\ Len(orig) > 0
  /\ disk = orig
  /\ count = 0

\* C6: a run on the output of a previous run of the same script leaves the
\* content unchanged and reports 0 fixes.
RerunReportsZero ==
  (run >= 2 /\ pc = "done") => (disk = orig /\ count = 0)

\* C7: a failed load ends the run with a failure status, with the file as it
\* was, no substitution applied, nothing written and no summary printed; a
\* run on an unreadable file never gets past the load.
LoadFailureFatal ==
  /\ ~readable => pc \in {"load", "failed"}
  /\ pc = "failed" =>
       /\ exitcode > 0
       /\ disk = orig
       /\ trace = <<>>
       /\ content = <<>> /\ count = 0 /\ occ = 0 /\ fired = {}
       /\ ~summary

\* A run has failed at the load, on a file that is not empty.
LoadFailureWitness == pc = "failed" /\ ~readable /\ Len(disk) > 0

\* One quote repair, from the state before it to the state after it.
QuoteStep(step, token) ==
  pc = step =>
    LET n == Count(content, token)
    IN  IF In(token, tabled) /\ ~In(Closed(token), tabled)
        THEN /\ n >= 1
             /\ Count(content', Closed(token)) = n
             /\ Count(content', token) = n
             /\ Len(content') = Len(content) + n
             /\ count' = count + 1
        ELSE content' = content /\ count' = count

\* C8: a quote repair fires exactly when, in the content left by the table
\* loop, its token occurs and the closed form occurs nowhere; when it fires,
\* every occurrence of the token gets a quote after it and the counter grows
\* by 1; when it does not, content and counter stay as they are.
QuoteRepair ==
  [][QuoteStep("quote181", old_181) /\ QuoteStep("quote191", old_191)]_vars

\* The repair of line 181 has fired on a content with two unclosed titles.
QuoteRepairWitness ==
  /\ pc = "done"
  /\ "quote181" \in fired
  /\ Count(tabled, old_181) = 2
  /\ Count(disk, new_181) = 2

\* C9: a run reads the file once, evaluates every entry of the table in the
\* written order, then every special-case patch, then writes the file once,
\* then prints the summary; what it writes is the final content; and every
\* run that loaded its file writes it, a run with no fix too.
RunOrder ==
  /\ IsPrefix(trace, FullTrace(script))
  /\ (readable /\ exitcode # -1) => trace = FullTrace(script)
  /\ pc \in {"report", "done"} => disk = content
  /\ summary => \E i \in 1..Len(trace) : trace[i] = <<"write", 0>>
  /\ pc = "done" => summary

\* fix-encoding-complete.py has ended after a run that fixed nothing.
RunOrderWitness ==
  /\ pc = "done"
  /\ script = Complete
  /\ count = 0
  /\ trace = FullTrace(Complete)
  /\ Len(disk) > 0

\* C10: a template block of the input is still there, as often, when the
\* template patch is reached; the patch replaces every occurrence by the
\* corrected block and adds 4 to the counter, however many there are; with
\* no block in the content, the patch changes nothing.
TemplatePatch ==
  [][pc = "template" =>
       LET n == Count(orig, old_template)
           m == Count(content, old_template)
       IN  /\ n > 0 => m = n
           /\ IF m > 0
              THEN /\ ~In(old_template, content')
                   /\ Count(content', new_template)
                        = Count(content, new_template) + m
                   /\ Len(content') + m * Len(old_template)
                        = Len(content) + m * Len(new_template)
                   /\ count' = count + 4
              ELSE content' = content /\ count' = count]_vars

\* The template patch has replaced two blocks and added 4.
TemplatePatchWitness ==
  /\ pc = "done"
  /\ "template" \in fired
  /\ Count(orig, old_template) = 2
  /\ Count(disk, new_template) = 2
  /\ count = 4

====
